---- MODULE Spec2Model ----
(***************************************************************************)
(* Model of outlook_calendar_checker/main.py: the poll loop                *)
(* check_availability, the response parser _parse_data, the formatter      *)
(* _format_available_slots and the SMS fan-out send_notification.          *)
(*                                                                         *)
(* One behaviour is one run of the process.  The command-line parameters   *)
(* and the loaded configuration are fixed in Init; each external call      *)
(* (GET, POST, Twilio create) draws its outcome with \E.                   *)
(***************************************************************************)
EXTENDS Integers, Sequences, FiniteSets, TLC

(***************************************************************************)
(* Bounds of the model.                                                    *)
(***************************************************************************)
\* most staff entries in one staffAvailabilityResponse
MaxStaff == 2
\* most availability items in one response, summed over its staff entries
MaxItems == 2

(***************************************************************************)
(* Program constants and configuration.                                    *)
(***************************************************************************)
POLLING_INTERVAL_DEFAULT == 60

\* values of --polling-interval tried: the default and another one
PollingIntervals == {POLLING_INTERVAL_DEFAULT, 30}

\* config['recipients'] lists tried: none; two numbers around a blank entry
RecipientConfigs == {<<>>, <<"+15550001", " ", "+15550002 ">>}

GET_URL == "https://outlook.office365.com/book/{OUTLOOK_EMAIL}/s/{GET_TOKEN}"

\* line 91: Retry(total=3, backoff_factor=5, status_forcelist=[500, 502, 503, 504])
RETRY_TOTAL == 3
BACKOFF_FACTOR == 5
STATUS_FORCELIST == {500, 502, 503, 504}
\* line 91 passes no allowed_methods: the methods urllib3 retries on a
\* status of the forcelist are its default, the idempotent ones
ALLOWED_METHODS == {"HEAD", "GET", "PUT", "DELETE", "OPTIONS", "TRACE"}
\* line 91 leaves respect_retry_after_header at its default, True: these are
\* the statuses urllib3 then retries when they carry a Retry-After header
RETRY_AFTER_STATUS_CODES == {413, 429, 503}

\* config['outlook']['service_id'] and ['staff_ids'] (lines 80-81)
SERVICE_ID == "service-1"
STAFF_IDS == <<"staff-1", "staff-2">>

\* the two statuses the parser skips
ExcludedStatuses ==
    {"BOOKINGSAVAILABILITYSTATUS_BUSY", "BOOKINGSAVAILABILITYSTATUS_OUT_OF_OFFICE"}

\* the slot _parse_data uses when send_notification_test is set
FixtureSlot ==
    [startDateTime |-> "2024-10-22T18:00:00", endDateTime |-> "2024-10-22T18:30:00"]

(***************************************************************************)
(* Inputs: status codes and response bodies.                               *)
(***************************************************************************)
\* final status of a GET that returned a response
GetStatuses == {200, 404}
\* final status of a POST that returned a response
PostStatuses == {200, 503}

\* Readings of datetime.now(timezone.utc) at line 162: the instant of the
\* documented example, the day after a leap day, and a new year's day.
Instants ==
    { [year |-> 2024, month |-> 10, day |-> 10, hour |-> 0, minute |-> 0],
      [year |-> 2024, month |-> 3, day |-> 1, hour |-> 23, minute |-> 59],
      [year |-> 2025, month |-> 1, day |-> 1, hour |-> 8, minute |-> 30] }

NoInstant == [year |-> 0, month |-> 0, day |-> 0, hour |-> 0, minute |-> 0]

\* a status of the forcelist, as a server in trouble answers
ServerErrorStatuses == {503}

\* a status urllib3 retries only when it carries a Retry-After header
ThrottleStatuses == {429}
\* seconds named by a Retry-After header; 0 stands for no header
RetryAfterValues == {7}

\* What can come back for one GET put on the wire: a status, with or
\* without a Retry-After header; a status whose connection is lost while
\* requests reads the body ("reset_in_body"); a connection that cannot be
\* made ("refused"); a connection lost after the request was sent and
\* before any byte of the response ("reset"); or nothing at all.
GetAnswers ==
    { [kind |-> "status", status_code |-> c, retry_after |-> 0] :
         c \in GetStatuses \cup ServerErrorStatuses \cup ThrottleStatuses }
      \cup { [kind |-> "status", status_code |-> c, retry_after |-> r] :
                c \in ServerErrorStatuses \cup ThrottleStatuses, r \in RetryAfterValues }
      \cup { [kind |-> "reset_in_body", status_code |-> c, retry_after |-> 0] :
                c \in GetStatuses \cup ServerErrorStatuses }
      \cup { [kind |-> k, status_code |-> 0, retry_after |-> 0] :
                k \in {"refused", "reset", "silence"} }

\* An availability item.  A timestamp of "" stands for a startDateTime or
\* endDateTime whose dateTime the two .get calls find absent or empty.
Items ==
    { [status |-> "BOOKINGSAVAILABILITYSTATUS_BUSY",
       startDateTime |-> "", endDateTime |-> "2024-10-23T09:30:00"],
      [status |-> "BOOKINGSAVAILABILITYSTATUS_OUT_OF_OFFICE",
       startDateTime |-> "2024-10-23T09:00:00", endDateTime |-> "2024-10-23T09:30:00"],
      [status |-> "BOOKINGSAVAILABILITYSTATUS_AVAILABLE",
       startDateTime |-> "2024-10-23T09:00:00", endDateTime |-> "2024-10-23T09:30:00"],
      [status |-> "BOOKINGSAVAILABILITYSTATUS_AVAILABLE",
       startDateTime |-> "2024-10-24T16:00:00", endDateTime |-> "2024-10-24T16:30:00"],
      [status |-> "BOOKINGSAVAILABILITYSTATUS_AVAILABLE",
       startDateTime |-> "", endDateTime |-> "2024-10-23T09:30:00"],
      [status |-> "BOOKINGSAVAILABILITYSTATUS_AVAILABLE",
       startDateTime |-> "2024-10-23T09:00:00", endDateTime |-> ""] }

\* sequences over S of length exactly n
SeqsOfLen(S, n) == [1..n -> S]

\* a staff entry with n items (hasItems = FALSE: no availabilityItems key)
StaffWith(n) ==
    {[hasItems |-> TRUE, availabilityItems |-> s] : s \in SeqsOfLen(Items, n)}
      \cup (IF n = 0 THEN {[hasItems |-> FALSE, availabilityItems |-> <<>>]} ELSE {})

\* staff lists of exactly s entries holding at most n items together
RECURSIVE StaffLists(_, _)
StaffLists(s, n) ==
    IF s = 0 THEN {<<>>}
    ELSE UNION { { <<first>> \o rest : first \in StaffWith(j), rest \in StaffLists(s - 1, n - j) }
                 : j \in 0..n }

\* The bodies a POST can return.  kind "undecodable": json() raises;
\* kind "array": JSON whose top level is not an object; kind "object":
\* a JSON object, with or without the staffAvailabilityResponse key.
Bodies ==
    { [kind |-> "undecodable", hasStaff |-> FALSE, staffAvailabilityResponse |-> <<>>],
      [kind |-> "array", hasStaff |-> FALSE, staffAvailabilityResponse |-> <<>>],
      [kind |-> "object", hasStaff |-> FALSE, staffAvailabilityResponse |-> <<>>] }
      \cup { [kind |-> "object", hasStaff |-> TRUE, staffAvailabilityResponse |-> sl] :
                sl \in UNION { StaffLists(s, MaxItems) : s \in 0..MaxStaff } }

\* the body of a response that is not a 200: an error page, not JSON
ErrorBody == [kind |-> "undecodable", hasStaff |-> FALSE, staffAvailabilityResponse |-> <<>>]

NoResponse == [state |-> "none", status_code |-> 0]
NoPostResponse == [state |-> "none", status_code |-> 0, body |-> ErrorBody]

\* What can come back for one POST put on the wire.  Only a 200 carries one
\* of the Bodies.
PostAnswers ==
    { [kind |-> "status", status_code |-> 200, retry_after |-> 0, body |-> b] :
         b \in Bodies }
      \cup { [kind |-> "status", status_code |-> c, retry_after |-> r, body |-> ErrorBody] :
                c \in PostStatuses \ {200}, r \in {0} \cup RetryAfterValues }
      \cup { [kind |-> "reset_in_body", status_code |-> c, retry_after |-> 0,
              body |-> ErrorBody] : c \in PostStatuses }
      \cup { [kind |-> k, status_code |-> 0, retry_after |-> 0, body |-> ErrorBody] :
                k \in {"refused", "reset", "silence"} }

(***************************************************************************)
(* State.                                                                  *)
(***************************************************************************)
VARIABLES
    pc,                      \* where check_availability stands
    polling_interval,        \* parameter of check_availability
    send_notification_test,  \* parameter of check_availability
    RECIPIENT_PHONE_NUMBERS, \* config['recipients']
    response,                \* this cycle's GET: none, raised, or returned a status
    post_response,           \* this cycle's POST, with its body
    parse_result,            \* how lines 144-149 ended in this cycle
    available_slots,         \* the list _parse_data built in this cycle
    message,                 \* the text handed to send_notification, NoMessage if none
    notified,                \* send_notification was called in this cycle
    next_recipient,          \* index of the for loop of send_notification
    sends,                   \* client.messages.create calls of this cycle
    sleeps,                  \* time.sleep calls of this cycle, by length
    retry_total,             \* what is left of Retry.total for the call in flight
    attempts,                \* times the call in flight was put on the wire
    backoffs,                \* waits of the transport between those attempts
    retry_after,             \* Retry-After of the answer being retried, 0 if none
    today,                   \* the clock reading of the latest _create_post_payload
    payload,                 \* the latest payload built for the POST
    notified_before          \* history: the slots notified in earlier cycles

vars == <<pc, polling_interval, send_notification_test, RECIPIENT_PHONE_NUMBERS,
          response, post_response, parse_result, available_slots, message,
          notified, next_recipient, sends, sleeps, retry_total, attempts, backoffs,
          retry_after, today, payload, notified_before>>

wire == <<retry_total, attempts, backoffs, retry_after>>

window == <<today, payload>>

params == <<polling_interval, send_notification_test, RECIPIENT_PHONE_NUMBERS>>

(***************************************************************************)
(* Pure functions.                                                         *)
(***************************************************************************)
\* str.strip() on the recipient entries of RecipientConfigs
strip(recipient) ==
    CASE recipient = " " -> ""
      [] recipient = "+15550002 " -> "+15550002"
      [] OTHER -> recipient

\* line 203: the status filter
status_excluded_only_busy(status) == status = "BOOKINGSAVAILABILITYSTATUS_BUSY"
status_excluded(status) == status \in ExcludedStatuses

\* line 209: a timestamp that is None or empty
timestamps_missing(start_time, end_time) == start_time = "" \/ end_time = ""

\* line 192: "not staff_response" holds for an absent key and for an empty list
staff_response_missing_only_absent(data) == ~data.hasStaff
staff_response_missing(data) ==
    ~data.hasStaff \/ data.staffAvailabilityResponse = <<>>

\* line 217: "if available_slots"
has_slots_always(slots) == TRUE
has_slots(slots) == slots # <<>>

\* lines 201-215 with the offending item dropped instead of raising
RECURSIVE parse_items_skipping(_, _)
parse_items_skipping(availability_items, slots) ==
    IF availability_items = <<>> THEN [exc |-> "none", available_slots |-> slots]
    ELSE LET item == Head(availability_items) IN
         IF status_excluded(item.status)
           \/ timestamps_missing(item.startDateTime, item.endDateTime)
         THEN parse_items_skipping(Tail(availability_items), slots)
         ELSE parse_items_skipping(Tail(availability_items),
                  Append(slots, [startDateTime |-> item.startDateTime,
                                 endDateTime |-> item.endDateTime]))

\* lines 201-215 with the timestamps required before the status is looked at
RECURSIVE parse_items_timestamps_first(_, _)
parse_items_timestamps_first(availability_items, slots) ==
    IF availability_items = <<>> THEN [exc |-> "none", available_slots |-> slots]
    ELSE LET item == Head(availability_items) IN
         IF timestamps_missing(item.startDateTime, item.endDateTime)
         THEN [exc |-> "ValueError", available_slots |-> <<>>]
         ELSE IF status_excluded(item.status)
         THEN parse_items_timestamps_first(Tail(availability_items), slots)
         ELSE parse_items_timestamps_first(Tail(availability_items),
                  Append(slots, [startDateTime |-> item.startDateTime,
                                 endDateTime |-> item.endDateTime]))

\* lines 201-215: the loop over one staff entry's items, appending to slots
RECURSIVE parse_items(_, _)
parse_items(availability_items, slots) ==
    IF availability_items = <<>> THEN [exc |-> "none", available_slots |-> slots]
    ELSE LET item == Head(availability_items) IN
         IF status_excluded(item.status)
         THEN parse_items(Tail(availability_items), slots)
         ELSE IF timestamps_missing(item.startDateTime, item.endDateTime)
         THEN [exc |-> "ValueError", available_slots |-> <<>>]
         ELSE parse_items(Tail(availability_items),
                  Append(slots, [startDateTime |-> item.startDateTime,
                                 endDateTime |-> item.endDateTime]))

\* lines 196-215: the loop over the staff entries
RECURSIVE parse_staff(_, _)
parse_staff(staff_response, slots) ==
    IF staff_response = <<>> THEN [exc |-> "none", available_slots |-> slots]
    ELSE LET staff == Head(staff_response) IN
         IF ~staff.hasItems
         THEN [exc |-> "ValueError", available_slots |-> <<>>]
         ELSE LET r == parse_items(staff.availabilityItems, slots) IN
              IF r.exc # "none" THEN r
              ELSE parse_staff(Tail(staff_response), r.available_slots)

\* lines 188-215: the slot list _parse_data builds, or the exception it raises.
\* data.get on a body that is not a JSON object raises AttributeError.
_parse_data(data, test) ==
    IF test THEN [exc |-> "none", available_slots |-> <<FixtureSlot>>]
    ELSE IF data.kind # "object"
    THEN [exc |-> "AttributeError", available_slots |-> <<>>]
    ELSE IF staff_response_missing(data)
    THEN [exc |-> "ValueError", available_slots |-> <<>>]
    ELSE parse_staff(data.staffAvailabilityResponse, <<>>)

\* lines 145-147: json() of the body, then _parse_data
parse_response(body, test) ==
    IF body.kind = "undecodable"
    THEN [exc |-> "JSONDecodeError", available_slots |-> <<>>]
    ELSE _parse_data(body, test)

\* datetime.fromisoformat(ts).astimezone(TIMEZONE) rendered with '%b %d' and
\* '%I:%M%p', for a host clock on UTC and TIMEZONE = America/Los_Angeles (PDT)
LocalDate(ts) ==
    CASE ts \in {"2024-10-22T18:00:00", "2024-10-22T18:30:00"} -> "Oct 22"
      [] ts \in {"2024-10-23T09:00:00", "2024-10-23T09:30:00"} -> "Oct 23"
      [] ts \in {"2024-10-24T16:00:00", "2024-10-24T16:30:00"} -> "Oct 24"
      [] OTHER -> "ValueError"
LocalTime(ts) ==
    CASE ts = "2024-10-22T18:00:00" -> "11:00AM"
      [] ts = "2024-10-22T18:30:00" -> "11:30AM"
      [] ts = "2024-10-23T09:00:00" -> "02:00AM"
      [] ts = "2024-10-23T09:30:00" -> "02:30AM"
      [] ts = "2024-10-24T16:00:00" -> "09:00AM"
      [] ts = "2024-10-24T16:30:00" -> "09:30AM"
      [] OTHER -> "ValueError"

\* lines 225-234: one line per slot, "<Mon> <DD> <start> - <end>"
_format_available_slots(slots) ==
    IF \E k \in 1..Len(slots) :
          \/ LocalTime(slots[k].startDateTime) = "ValueError"
          \/ LocalTime(slots[k].endDateTime) = "ValueError"
    THEN [exc |-> "ValueError", formatted_slots |-> <<>>]
    ELSE [exc |-> "none",
          formatted_slots |->
              [k \in 1..Len(slots) |->
                  [date |-> LocalDate(slots[k].startDateTime),
                   start |-> LocalTime(slots[k].startDateTime),
                   end |-> LocalTime(slots[k].endDateTime)]]]

\* the calendar of datetime: leap years, month lengths, and the ordinal of
\* a date (days since 0001-01-01, which is day 1) that timedelta adds to
is_leap(year) == year % 4 = 0 /\ (year % 100 # 0 \/ year % 400 = 0)

days_in_month(year, month) ==
    IF month = 2 THEN (IF is_leap(year) THEN 29 ELSE 28)
    ELSE IF month \in {4, 6, 9, 11} THEN 30
    ELSE 31

days_before_year(year) ==
    (year - 1) * 365 + (year - 1) \div 4 - (year - 1) \div 100 + (year - 1) \div 400

RECURSIVE days_before_month(_, _)
days_before_month(year, month) ==
    IF month = 1 THEN 0
    ELSE days_before_month(year, month - 1) + days_in_month(year, month - 1)

toordinal(year, month, day) ==
    days_before_year(year) + days_before_month(year, month) + day

\* the date of an ordinal, for the years the Instants can lead to
fromordinal(n) ==
    LET year == CHOOSE y \in 2020..2030 :
                    days_before_year(y) < n /\ n <= days_before_year(y + 1)
        month == CHOOSE m \in 1..12 :
                    /\ toordinal(year, m, 1) <= n
                    /\ n < toordinal(year, m, 1) + days_in_month(year, m)
    IN  [year |-> year, month |-> month, day |-> n - toordinal(year, month, 1) + 1]

\* datetime + timedelta(days=n): the date moves, the time of day stays
plus_days(dt, n) ==
    LET date == fromordinal(toordinal(dt.year, dt.month, dt.day) + n)
    IN  [year |-> date.year, month |-> date.month, day |-> date.day,
         hour |-> dt.hour, minute |-> dt.minute]

\* strftime("%Y-%m-%dT00:00:00"): the date, with the time of day written as zeros
strftime_midnight(dt) ==
    [year |-> dt.year, month |-> dt.month, day |-> dt.day,
     hour |-> 0, minute |-> 0, second |-> 0]

NoPayload ==
    [serviceId |-> "", staffIds |-> <<>>,
     startDateTime |-> [dateTime |-> strftime_midnight(NoInstant), timeZone |-> ""],
     endDateTime |-> [dateTime |-> strftime_midnight(NoInstant), timeZone |-> ""]]

\* lines 158-180 with an end thirteen days after the start
_create_post_payload_13_days(now) ==
    LET start_date == plus_days(now, -1)
        end_date == plus_days(start_date, 13)
    IN  [serviceId |-> SERVICE_ID, staffIds |-> STAFF_IDS,
         startDateTime |-> [dateTime |-> strftime_midnight(start_date),
                            timeZone |-> "Pacific Standard Time"],
         endDateTime |-> [dateTime |-> strftime_midnight(end_date),
                          timeZone |-> "Pacific Standard Time"]]

\* lines 158-180: the payload of the POST for a clock reading of now
_create_post_payload(now) ==
    LET start_date == plus_days(now, -1)
        end_date == plus_days(start_date, 12)
    IN  [serviceId |-> SERVICE_ID, staffIds |-> STAFF_IDS,
         startDateTime |-> [dateTime |-> strftime_midnight(start_date),
                            timeZone |-> "Pacific Standard Time"],
         endDateTime |-> [dateTime |-> strftime_midnight(end_date),
                          timeZone |-> "Pacific Standard Time"]]

NoMessage == [title |-> "", formatted_slots |-> <<>>, link |-> ""]

\* line 220: the text of the SMS
Message(formatted_slots) ==
    [title |-> "Booking Slots Available!", formatted_slots |-> formatted_slots,
     link |-> GET_URL]

(***************************************************************************)
(* Initial state: main() has parsed the arguments, the configuration is    *)
(* loaded, and check_availability is about to enter its loop.              *)
(***************************************************************************)
Init ==
    /\ pc = "get"
    /\ polling_interval \in PollingIntervals
    /\ send_notification_test \in BOOLEAN
    /\ RECIPIENT_PHONE_NUMBERS \in RecipientConfigs
    /\ response = NoResponse
    /\ post_response = NoPostResponse
    /\ parse_result = "none"
    /\ available_slots = <<>>
    /\ message = NoMessage
    /\ notified = FALSE
    /\ next_recipient = 0
    /\ sends = <<>>
    /\ sleeps = <<>>
    /\ retry_total = RETRY_TOTAL
    /\ attempts = 0
    /\ backoffs = <<>>
    /\ retry_after = 0
    /\ today = NoInstant
    /\ payload = NoPayload
    /\ notified_before = {}

(***************************************************************************)
(* The steps of check_availability.                                        *)
(***************************************************************************)
\* lines 129-134: where a GET response of this status leads
after_get_ignoring_status(status_code) == "post"
after_get(status_code) ==
    IF status_code # 200 THEN "sleep_get_failed" ELSE "post"

\* lines 138-143: where a POST response of this status leads
after_post_ignoring_status(status_code) == "parse"
after_post(status_code) ==
    IF status_code # 200 THEN "sleep_post_failed" ELSE "parse"

\* lines 151-155: where a RequestException raised by either call leads
after_request_exception_ignored == "parse"
after_request_exception == "sleep"

\* Retry.is_retry for the Retry of line 91: nothing is retried for a method
\* urllib3 does not take to be idempotent; a status of the forcelist is
\* retried; a status of RETRY_AFTER_STATUS_CODES is retried when it carries
\* a Retry-After header and total is not 0
is_retry(method, status_code, has_retry_after, total) ==
    /\ method \in ALLOWED_METHODS
    /\ \/ status_code \in STATUS_FORCELIST
       \/ total # 0 /\ has_retry_after /\ status_code \in RETRY_AFTER_STATUS_CODES

\* Retry.get_backoff_time after that many consecutive errors
get_backoff_time(consecutive_errors) ==
    IF consecutive_errors <= 1 THEN 0
    ELSE BACKOFF_FACTOR * 2 ^ (consecutive_errors - 1)

\* Retry.sleep: the Retry-After of the answer being retried if it had one,
\* the backoff otherwise
sleep_time(header_seconds, consecutive_errors) ==
    IF header_seconds > 0 THEN header_seconds
    ELSE get_backoff_time(consecutive_errors)

\* Retry.increment finds total below 0 (requests then raises a
\* RequestException: RetryError or ConnectionError), or the request is sent
\* again
increment(total) ==
    IF total - 1 < 0 THEN "raise" ELSE "retry"

\* What session.get / session.post do with an answer: hand the response to
\* the caller, send the request again, or raise.  A connection that could
\* not be made is retried whatever the method; one lost before the
\* response began only for an idempotent method.  A status is retried or
\* not before its body is read: the body of a retried one is discarded,
\* and requests reads the body of the others after the adapter's retries
\* are over, so a connection lost then raises at once
\* (ChunkedEncodingError, a RequestException).
verdict(method, answer, total) ==
    IF answer.kind = "refused" THEN increment(total)
    ELSE IF answer.kind = "reset"
    THEN IF method \in ALLOWED_METHODS THEN increment(total) ELSE "raise"
    ELSE IF is_retry(method, answer.status_code, answer.retry_after > 0, total)
    THEN increment(total)
    ELSE IF answer.kind = "reset_in_body" THEN "raise"
    ELSE "return"

\* the transport's record of a call whose request will be sent again
InFlight(total, sent, waits, answer) ==
    /\ retry_total' = total - 1
    /\ attempts' = sent
    /\ backoffs' = waits
    /\ retry_after' = answer.retry_after

\* the call returned or raised: its Retry object is gone with it
CallOver ==
    /\ retry_total' = RETRY_TOTAL
    /\ attempts' = 0
    /\ backoffs' = <<>>
    /\ retry_after' = 0

\* line 128: the GET goes on the wire for the `sent`-th time, after the
\* waits `waits` and with `total` retries left, and gets its answer.
\* No timeout is passed: a GET that is never answered never returns.
GetOnWire(total, sent, waits, answer) ==
    IF answer.kind = "silence"
    THEN /\ pc' = "blocked"
         /\ response' = NoResponse
         /\ retry_total' = total
         /\ attempts' = sent
         /\ backoffs' = waits
         /\ retry_after' = 0
    ELSE LET v == verdict("GET", answer, total)
         IN  IF v = "return"
             THEN /\ pc' = after_get(answer.status_code)
                  /\ response' = [state |-> "returned", status_code |-> answer.status_code]
                  /\ CallOver
             ELSE IF v = "retry"
             THEN /\ pc' = "get_retry"
                  /\ response' = NoResponse
                  /\ InFlight(total, sent, waits, answer)
             ELSE /\ pc' = after_request_exception
                  /\ response' = [state |-> "raised", status_code |-> 0]
                  /\ CallOver

\* line 137: the POST goes on the wire for the `sent`-th time, and gets
\* its answer
PostOnWire(total, sent, waits, answer) ==
    IF answer.kind = "silence"
    THEN /\ pc' = "blocked"
         /\ post_response' = NoPostResponse
         /\ retry_total' = total
         /\ attempts' = sent
         /\ backoffs' = waits
         /\ retry_after' = 0
    ELSE LET v == verdict("POST", answer, total)
         IN  IF v = "return"
             THEN /\ pc' = after_post(answer.status_code)
                  /\ post_response' = [state |-> "returned",
                                       status_code |-> answer.status_code,
                                       body |-> answer.body]
                  /\ CallOver
             ELSE IF v = "retry"
             THEN /\ pc' = "post_retry"
                  /\ post_response' = NoPostResponse
                  /\ InFlight(total, sent, waits, answer)
             ELSE /\ pc' = after_request_exception
                  /\ post_response' = [state |-> "raised", status_code |-> 0,
                                       body |-> ErrorBody]
                  /\ CallOver

\* lines 126-134, 151-152: a new cycle starts with session.get, which starts
\* from the Retry of line 91.
RequestSession ==
    /\ pc = "get"
    /\ \E answer \in GetAnswers : GetOnWire(RETRY_TOTAL, 1, <<>>, answer)
    /\ post_response' = NoPostResponse
    /\ parse_result' = "none"
    /\ available_slots' = <<>>
    /\ message' = NoMessage
    /\ notified' = FALSE
    /\ next_recipient' = 0
    /\ sends' = <<>>
    /\ sleeps' = <<>>
    /\ notified_before' =
          IF notified
          THEN notified_before \cup { available_slots[k] : k \in 1..Len(available_slots) }
          ELSE notified_before
    /\ UNCHANGED <<params, window>>

\* lines 135-143, 151-152: the payload is built from the clock, then
\* session.post sends it, starting from the Retry of line 91 again
RequestAvailability ==
    /\ pc = "post"
    /\ \E now \in Instants :
          /\ today' = now
          /\ payload' = _create_post_payload(now)
    /\ \E answer \in PostAnswers : PostOnWire(RETRY_TOTAL, 1, <<>>, answer)
    /\ UNCHANGED <<params, response, parse_result, available_slots, message,
                   notified, next_recipient, sends, sleeps, notified_before>>

\* lines 128, 137 inside the adapter: after the wait (Retry.sleep) the
\* request goes on the wire again
RetryRequest ==
    /\ pc \in {"get_retry", "post_retry"}
    /\ LET waits == Append(backoffs,
                           sleep_time(retry_after, RETRY_TOTAL - retry_total))
       IN  IF pc = "get_retry"
           THEN /\ \E answer \in GetAnswers :
                      GetOnWire(retry_total, attempts + 1, waits, answer)
                /\ UNCHANGED post_response
           ELSE /\ \E answer \in PostAnswers :
                      PostOnWire(retry_total, attempts + 1, waits, answer)
                /\ UNCHANGED response
    /\ UNCHANGED <<params, window, parse_result, available_slots, message, notified,
                   next_recipient, sends, sleeps, notified_before>>

\* lines 148-149 and 217-222 up to the entry of send_notification (99-101):
\* what follows once lines 145-215 gave the slots, or raised.  A ValueError
\* is caught at line 148; an AttributeError is caught nowhere.
Conclude(r) ==
    LET f == _format_available_slots(r.available_slots)
    IN  IF r.exc = "AttributeError"
        THEN /\ parse_result' = r.exc
             /\ pc' = "crashed"
             /\ UNCHANGED <<available_slots, message, notified, next_recipient>>
        ELSE IF r.exc # "none"
        THEN /\ parse_result' = r.exc
             /\ pc' = "sleep"
             /\ UNCHANGED <<available_slots, message, notified, next_recipient>>
        ELSE IF ~has_slots(r.available_slots)
        THEN /\ parse_result' = "ok"
             /\ available_slots' = r.available_slots
             /\ pc' = "sleep"
             /\ UNCHANGED <<message, notified, next_recipient>>
        ELSE IF f.exc # "none"
        THEN /\ parse_result' = f.exc
             /\ available_slots' = r.available_slots
             /\ pc' = "sleep"
             /\ UNCHANGED <<message, notified, next_recipient>>
        ELSE /\ parse_result' = "ok"
             /\ available_slots' = r.available_slots
             /\ message' = Message(f.formatted_slots)
             /\ notified' = TRUE
             /\ IF RECIPIENT_PHONE_NUMBERS = <<>>
                THEN pc' = "sleep" /\ UNCHANGED next_recipient
                ELSE pc' = "send" /\ next_recipient' = 1

\* a set of slots as a list
RECURSIVE SlotList(_)
SlotList(slots) ==
    IF slots = {} THEN <<>>
    ELSE LET slot == CHOOSE x \in slots : TRUE
         IN  <<slot>> \o SlotList(slots \ {slot})

\* lines 144-149 falling back, when the parse raises ValueError, on slots
\* kept from earlier cycles
ParseResponseOnStaleSlots ==
    /\ pc = "parse"
    /\ LET r == parse_response(post_response.body, send_notification_test)
       IN  Conclude(IF r.exc \in {"ValueError", "JSONDecodeError"} /\ notified_before # {}
                    THEN [exc |-> "none", available_slots |-> SlotList(notified_before)]
                    ELSE r)
    /\ UNCHANGED <<params, wire, window, notified_before, response, post_response,
                   sends, sleeps>>

\* lines 144-149 leaving out the slots already notified in an earlier cycle
ParseResponseDeduplicating ==
    /\ pc = "parse"
    /\ LET r == parse_response(post_response.body, send_notification_test)
           fresh(slot) == slot \notin notified_before
       IN  Conclude([r EXCEPT !.available_slots = SelectSeq(@, fresh)])
    /\ UNCHANGED <<params, wire, window, notified_before, response, post_response,
                   sends, sleeps>>

\* lines 144-149 and 183-222 up to the entry of send_notification (99-101):
\* decode, extract the slots, format them and decide whether to notify
ParseResponse ==
    /\ pc = "parse"
    /\ Conclude(parse_response(post_response.body, send_notification_test))
    /\ UNCHANGED <<params, wire, window, notified_before, response, post_response,
                   sends, sleeps>>

\* lines 105-115 with a create that raised tried again for the same recipient
SendNotificationRetrying ==
    /\ pc = "send"
    /\ LET recipient == strip(RECIPIENT_PHONE_NUMBERS[next_recipient])
           advance == IF next_recipient = Len(RECIPIENT_PHONE_NUMBERS)
                      THEN pc' = "sleep" /\ next_recipient' = 0
                      ELSE pc' = "send" /\ next_recipient' = next_recipient + 1
       IN  IF recipient = ""
           THEN advance /\ UNCHANGED sends
           ELSE \E delivered \in BOOLEAN :
                  /\ sends' = Append(sends, [to |-> recipient, body |-> message,
                                             ok |-> delivered])
                  /\ IF delivered THEN advance
                     ELSE pc' = "send" /\ UNCHANGED next_recipient
    /\ UNCHANGED <<params, wire, window, notified_before, response, post_response,
                   parse_result, available_slots, message, notified, sleeps>>

\* lines 105-115: one turn of the for loop of send_notification.  A blank
\* entry is passed over; a create that raises ends the loop (line 114).
SendNotification ==
    /\ pc = "send"
    /\ LET recipient == strip(RECIPIENT_PHONE_NUMBERS[next_recipient])
           advance == IF next_recipient = Len(RECIPIENT_PHONE_NUMBERS)
                      THEN pc' = "sleep" /\ next_recipient' = 0
                      ELSE pc' = "send" /\ next_recipient' = next_recipient + 1
       IN  IF recipient = ""
           THEN advance /\ UNCHANGED sends
           ELSE \E delivered \in BOOLEAN :
                  /\ sends' = Append(sends, [to |-> recipient, body |-> message,
                                             ok |-> delivered])
                  /\ IF delivered THEN advance
                     ELSE pc' = "sleep" /\ next_recipient' = 0
    /\ UNCHANGED <<params, wire, window, notified_before, response, post_response, parse_result, available_slots,
                   message, notified, sleeps>>

\* line 131-132 without the continue: control falls to line 155
SleepGetFailedFallsThrough ==
    /\ pc = "sleep_get_failed"
    /\ sleeps' = Append(sleeps, polling_interval)
    /\ pc' = "sleep"
    /\ UNCHANGED <<params, wire, window, notified_before, response, post_response, parse_result, available_slots,
                   message, notified, next_recipient, sends>>

\* lines 131-132: the wait after a GET that was not a 200, then continue
SleepGetFailed ==
    /\ pc = "sleep_get_failed"
    /\ sleeps' = Append(sleeps, polling_interval)
    /\ pc' = "get"
    /\ UNCHANGED <<params, wire, window, notified_before, response, post_response, parse_result, available_slots,
                   message, notified, next_recipient, sends>>

\* lines 140-141: the wait after a POST that was not a 200, then continue
SleepPostFailed ==
    /\ pc = "sleep_post_failed"
    /\ sleeps' = Append(sleeps, polling_interval)
    /\ pc' = "get"
    /\ UNCHANGED <<params, wire, window, notified_before, response, post_response, parse_result, available_slots,
                   message, notified, next_recipient, sends>>

\* lines 154-155: the wait at the end of every other cycle
Sleep ==
    /\ pc = "sleep"
    /\ sleeps' = Append(sleeps, polling_interval)
    /\ pc' = "get"
    /\ UNCHANGED <<params, wire, window, notified_before, response, post_response, parse_result, available_slots,
                   message, notified, next_recipient, sends>>

Next ==
    \/ RequestSession
    \/ RequestAvailability
    \/ RetryRequest
    \/ ParseResponse
    \/ SendNotification
    \/ SleepGetFailed
    \/ SleepPostFailed
    \/ Sleep

Spec == Init /\ [][Next]_vars

(***************************************************************************)
(* Vocabulary of the properties.                                           *)
(***************************************************************************)
\* the record held in the variables is that of a finished cycle
CycleOver == pc = "get" /\ response.state # "none"

\* lines 144-149 ran in this cycle
ParseAttempted == parse_result # "none"

\* the body the parser was given in this cycle, outside test mode
LiveParse == ParseAttempted /\ ~send_notification_test

\* the items of a staff list in staff-then-item order
RECURSIVE Flatten(_)
Flatten(staff_response) ==
    IF staff_response = <<>> THEN <<>>
    ELSE Head(staff_response).availabilityItems \o Flatten(Tail(staff_response))

Bookable(item) == item.status \notin ExcludedStatuses

LacksTimestamp(item) == item.startDateTime = "" \/ item.endDateTime = ""

SlotOf(item) == [startDateTime |-> item.startDateTime, endDateTime |-> item.endDateTime]

\* the input items, in order, without the BUSY and OUT_OF_OFFICE ones
ExpectedSlots(body) ==
    LET kept == SelectSeq(Flatten(body.staffAvailabilityResponse), Bookable)
    IN  [k \in 1..Len(kept) |-> SlotOf(kept[k])]

\* a JSON object with the staff list, every staff entry with its items,
\* every bookable item with both timestamps
WellFormed(body) ==
    /\ body.kind = "object"
    /\ body.hasStaff
    /\ \A k \in 1..Len(body.staffAvailabilityResponse) :
          body.staffAvailabilityResponse[k].hasItems
    /\ \A k \in 1..Len(Flatten(body.staffAvailabilityResponse)) :
          LET item == Flatten(body.staffAvailabilityResponse)[k]
          IN  Bookable(item) => ~LacksTimestamp(item)

\* a JSON object with a staff list in which a staff entry has no items
\* field or a bookable item lacks a timestamp
Offending(body) ==
    /\ body.kind = "object"
    /\ body.hasStaff
    /\ \/ \E k \in 1..Len(body.staffAvailabilityResponse) :
             ~body.staffAvailabilityResponse[k].hasItems
       \/ \E k \in 1..Len(Flatten(body.staffAvailabilityResponse)) :
             LET item == Flatten(body.staffAvailabilityResponse)[k]
             IN  Bookable(item) /\ LacksTimestamp(item)

\* the recipients of the configuration that are not blank
Recipients ==
    { strip(RECIPIENT_PHONE_NUMBERS[k]) : k \in 1..Len(RECIPIENT_PHONE_NUMBERS) } \ {""}

NoNotification == ~notified /\ sends = <<>> /\ message = NoMessage

(***************************************************************************)
(* Properties.                                                             *)
(***************************************************************************)
\* C1: once the fan-out of a cycle has ended, a send was attempted to every
\* configured recipient, whichever earlier sends failed.
C1_EveryRecipientAttempted ==
    (notified /\ pc # "send") =>
        \A r \in Recipients : \E k \in 1..Len(sends) : sends[k].to = r

\* C2: the loop has no crashed state: no failure of a cycle, a malformed
\* response body included, leaves check_availability.
C2_LoopNeverTerminates == pc # "crashed"

\* C3: in a cycle whose GET returned a status other than 200 no POST is
\* issued, nothing is parsed, nothing is sent, and the cycle goes straight
\* to its wait of the configured interval.
C3_GetFailureSkipsCycle ==
    (response.state = "returned" /\ response.status_code # 200) =>
        /\ post_response.state = "none"
        /\ ~ParseAttempted
        /\ available_slots = <<>>
        /\ NoNotification
        /\ pc \in {"sleep_get_failed", "get"}
        /\ (pc = "get" => sleeps = <<polling_interval>>)

C3_Witness ==
    /\ CycleOver
    /\ response.status_code = 404
    /\ sleeps = <<polling_interval>>

\* C4: in a cycle whose POST returned a status other than 200 the response
\* is never parsed, nothing is sent, and the cycle goes to its wait.
C4_PostFailureSkipsParse ==
    (post_response.state = "returned" /\ post_response.status_code # 200) =>
        /\ ~ParseAttempted
        /\ available_slots = <<>>
        /\ NoNotification
        /\ pc \in {"sleep_post_failed", "get"}
        /\ (pc = "get" => sleeps = <<polling_interval>>)

C4_Witness ==
    /\ CycleOver
    /\ post_response.state = "returned"
    /\ post_response.status_code = 503
    /\ sleeps = <<polling_interval>>

\* C5: a cycle waits only as its last step, and by the time the next GET
\* is due it has waited exactly once, for the configured interval, whichever
\* branch it took.
C5_ExactlyOneWait ==
    /\ Len(sleeps) <= 1
    /\ \A k \in 1..Len(sleeps) : sleeps[k] = polling_interval
    /\ (pc # "get" => sleeps = <<>>)
    /\ (CycleOver => Len(sleeps) = 1)

C5_Witness ==
    /\ CycleOver
    /\ parse_result = "ValueError"
    /\ polling_interval # POLLING_INTERVAL_DEFAULT
    /\ sleeps = <<polling_interval>>

\* C6: send_notification is called, and a message is sent, only in a cycle
\* whose slot list is not empty; a valid response whose items are all BUSY
\* or OUT_OF_OFFICE gives an empty list and no call.
C6_NotifyOnlyWithSlots ==
    /\ notified => available_slots # <<>>
    /\ sends # <<>> => notified
    /\ ( /\ LiveParse
         /\ WellFormed(post_response.body)
         /\ \A k \in 1..Len(Flatten(post_response.body.staffAvailabilityResponse)) :
               ~Bookable(Flatten(post_response.body.staffAvailabilityResponse)[k]) )
       => (available_slots = <<>> /\ NoNotification)

C6_Witness ==
    /\ CycleOver
    /\ LiveParse
    /\ parse_result = "ok"
    /\ RECIPIENT_PHONE_NUMBERS # <<>>
    /\ Len(Flatten(post_response.body.staffAvailabilityResponse)) = 2
    /\ \A k \in 1..2 :
          ~Bookable(Flatten(post_response.body.staffAvailabilityResponse)[k])
    /\ NoNotification

\* C7 as stated: for every well-formed response the parser's slot sequence
\* is the input items in staff-then-item order without the BUSY and
\* OUT_OF_OFFICE ones.
C7_Original ==
    (LiveParse /\ WellFormed(post_response.body)) =>
        /\ parse_result = "ok"
        /\ available_slots = ExpectedSlots(post_response.body)

\* C7 amended: for every well-formed response with at least one staff entry
\* the parser's slot sequence is the input items in staff-then-item order
\* without the BUSY and OUT_OF_OFFICE ones.
C7_FilterKeepsOrder ==
    ( /\ LiveParse
      /\ WellFormed(post_response.body)
      /\ post_response.body.staffAvailabilityResponse # <<>> ) =>
        /\ parse_result = "ok"
        /\ available_slots = ExpectedSlots(post_response.body)

C7_Witness ==
    /\ LiveParse
    /\ WellFormed(post_response.body)
    /\ Len(post_response.body.staffAvailabilityResponse) = 2
    /\ Len(Flatten(post_response.body.staffAvailabilityResponse)) = 2
    /\ ~Bookable(Flatten(post_response.body.staffAvailabilityResponse)[1])
    /\ Bookable(Flatten(post_response.body.staffAvailabilityResponse)[2])
    /\ parse_result = "ok"
    /\ Len(available_slots) = 1

\* C8: every decoded response without the top-level
\* staffAvailabilityResponse field, whether a JSON object or not, fails
\* validation: the ValueError is caught, no slot sequence is produced,
\* nothing is sent and the cycle goes to its wait.
C8_MissingFieldFailsValidation ==
    ( /\ LiveParse
      /\ post_response.body.kind # "undecodable"
      /\ ~post_response.body.hasStaff ) =>
        /\ parse_result = "ValueError"
        /\ available_slots = <<>>
        /\ NoNotification
        /\ pc \in {"sleep", "get"}

C10_TestModeIndependentOfUpstream ==
    (send_notification_test /\ Len(sleeps) = 1) =>
        /\ available_slots = <<FixtureSlot>>
        /\ notified

\* C11: a RequestException raised by the GET or by the POST abandons the
\* cycle: no later request, no parse and no notification follow in it, and
\* it goes to the wait at the end of the loop.
C11_TransportFailureAbandonsCycle ==
    /\ response.state = "raised" => post_response.state = "none"
    /\ (response.state = "raised" \/ post_response.state = "raised") =>
          /\ ~ParseAttempted
          /\ available_slots = <<>>
          /\ NoNotification
          /\ pc \in {"sleep", "get"}
          /\ (pc = "get" => sleeps = <<polling_interval>>)

C11_Witness ==
    /\ CycleOver
    /\ response.state = "returned"
    /\ response.status_code = 200
    /\ post_response.state = "raised"
    /\ sleeps = <<polling_interval>>

\* C12: for the GET and for the POST alike, a status of the forcelist is
\* retried by the transport, at most RETRY_TOTAL times with a wait before
\* each retry and from a fresh budget per request, so that no such status
\* is handed to the loop as the response of the call.
C12_ServerErrorsRetriedForBothCalls ==
    /\ attempts <= 1 + RETRY_TOTAL
    /\ attempts # 0 => Len(backoffs) = attempts - 1
    /\ response.state = "returned" => response.status_code \notin STATUS_FORCELIST
    /\ post_response.state = "returned" =>
          post_response.status_code \notin STATUS_FORCELIST

\* what the dateTime of a payload should read for each clock reading
ExpectedWindow(now) ==
    CASE now = [year |-> 2024, month |-> 10, day |-> 10, hour |-> 0, minute |-> 0] ->
           [start |-> [year |-> 2024, month |-> 10, day |-> 9,
                       hour |-> 0, minute |-> 0, second |-> 0],
            end |-> [year |-> 2024, month |-> 10, day |-> 21,
                     hour |-> 0, minute |-> 0, second |-> 0]]
      [] now = [year |-> 2024, month |-> 3, day |-> 1, hour |-> 23, minute |-> 59] ->
           [start |-> [year |-> 2024, month |-> 2, day |-> 29,
                       hour |-> 0, minute |-> 0, second |-> 0],
            end |-> [year |-> 2024, month |-> 3, day |-> 12,
                     hour |-> 0, minute |-> 0, second |-> 0]]
      [] now = [year |-> 2025, month |-> 1, day |-> 1, hour |-> 8, minute |-> 30] ->
           [start |-> [year |-> 2024, month |-> 12, day |-> 31,
                       hour |-> 0, minute |-> 0, second |-> 0],
            end |-> [year |-> 2025, month |-> 1, day |-> 12,
                     hour |-> 0, minute |-> 0, second |-> 0]]

\* a POST went out in this cycle
PostIssued == pc \in {"parse", "send", "sleep_post_failed"} \/ post_response.state # "none"

\* C13: the payload of every POST is the one built from the clock reading
\* of its own cycle: its start is midnight of the day before that reading
\* and its end midnight twelve days after the start.
C13_WindowFromCurrentInstant ==
    /\ PostIssued => today \in Instants
    /\ today \in Instants =>
          LET start == payload.startDateTime.dateTime
              end == payload.endDateTime.dateTime
          IN  /\ start = ExpectedWindow(today).start
              /\ end = ExpectedWindow(today).end
              /\ toordinal(start.year, start.month, start.day)
                    = toordinal(today.year, today.month, today.day) - 1
              /\ toordinal(end.year, end.month, end.day)
                    = toordinal(start.year, start.month, start.day) + 12

C13_Witness ==
    /\ CycleOver
    /\ post_response.state = "returned"
    /\ today = [year |-> 2024, month |-> 3, day |-> 1, hour |-> 23, minute |-> 59]
    /\ payload.startDateTime.dateTime.day = 29
    /\ payload.endDateTime.dateTime.month = 3

\* the body of this cycle's POST cannot be turned into a slot list
BodyFails ==
    LET body == post_response.body
    IN  \/ body.kind = "undecodable"
        \/ /\ ~send_notification_test
           /\ \/ body.kind # "object"
              \/ ~body.hasStaff
              \/ body.staffAvailabilityResponse = <<>>
              \/ Offending(body)

\* the cycle failed: a transport error, a status other than 200, or a body
\* that does not validate
FailedCycle ==
    \/ response.state = "raised"
    \/ response.state = "returned" /\ response.status_code # 200
    \/ post_response.state = "raised"
    \/ post_response.state = "returned" /\ post_response.status_code # 200
    \/ post_response.state = "returned" /\ ParseAttempted /\ BodyFails

\* C14: a failed cycle sends nothing, and what a cycle notifies is the slot
\* list of its own response (the fixture slot in test mode), whatever
\* earlier cycles parsed or notified.
C14_NoSlotSurvivesACycle ==
    /\ FailedCycle => NoNotification
    /\ notified =>
          /\ post_response.state = "returned"
          /\ post_response.status_code = 200
          /\ available_slots =
                IF send_notification_test THEN <<FixtureSlot>>
                ELSE ExpectedSlots(post_response.body)
          /\ message = Message(_format_available_slots(available_slots).formatted_slots)
          /\ \A k \in 1..Len(sends) : sends[k].body = message

C14_Witness ==
    /\ CycleOver
    /\ notified_before # {}
    /\ RECIPIENT_PHONE_NUMBERS # <<>>
    /\ post_response.state = "returned"
    /\ parse_result = "ValueError"
    /\ NoNotification

\* C15: no request waits for ever: the loop never stands in a call that
\* will not return.
C15_NoRequestBlocksForever == pc # "blocked"

\* the configured recipients that are not blank, in order
NonBlankRecipients ==
    LET stripped == [k \in 1..Len(RECIPIENT_PHONE_NUMBERS) |->
                        strip(RECIPIENT_PHONE_NUMBERS[k])]
        filled(recipient) == recipient # ""
    IN  SelectSeq(stripped, filled)

\* C16: in one cycle the sends go to the configured recipients in order,
\* at most one each; a send that failed is the last of its cycle; and every
\* send carries the one message of the cycle, the formatted slots with the
\* booking link.
C16_AtMostOneSendPerRecipient ==
    /\ Len(sends) <= Len(NonBlankRecipients)
    /\ \A k \in 1..Len(sends) :
          /\ sends[k].to = NonBlankRecipients[k]
          /\ sends[k].body = message
    /\ \A k \in 1..(Len(sends) - 1) : sends[k].ok
    /\ sends # <<>> =>
          /\ message.formatted_slots =
                _format_available_slots(available_slots).formatted_slots
          /\ Len(message.formatted_slots) = Len(available_slots)
          /\ message.link = GET_URL

C16_Witness ==
    /\ CycleOver
    /\ Len(sends) = 2
    /\ sends[1].ok
    /\ ~sends[2].ok
    /\ sends[1].to # sends[2].to

\* C17: whether a cycle notifies, and what, is decided by its own slot
\* list alone: a cycle whose response holds bookable slots notifies all of
\* them, also those already notified in an earlier cycle.
C17_NoDeduplicationAcrossCycles ==
    /\ notified <=> (parse_result = "ok" /\ available_slots # <<>>)
    /\ ( /\ LiveParse
         /\ WellFormed(post_response.body)
         /\ ExpectedSlots(post_response.body) # <<>> ) =>
          /\ notified
          /\ Len(message.formatted_slots) = Len(ExpectedSlots(post_response.body))
    /\ (send_notification_test /\ ParseAttempted
           /\ post_response.body.kind # "undecodable") =>
          (notified /\ Len(message.formatted_slots) = 1)
    /\ (notified /\ pc \notin {"parse", "send"} /\ NonBlankRecipients # <<>>) =>
          sends # <<>>

C17_Witness ==
    /\ CycleOver
    /\ ~send_notification_test
    /\ notified
    /\ sends # <<>>
    /\ \A k \in 1..Len(available_slots) : available_slots[k] \in notified_before

\* C18: an item of status BUSY or OUT_OF_OFFICE is passed over before its
\* timestamps are looked at: lacking one, it fails no validation.
C18_StatusFilterBeforeTimestamps ==
    ( /\ LiveParse
      /\ WellFormed(post_response.body)
      /\ post_response.body.staffAvailabilityResponse # <<>>
      /\ \E k \in 1..Len(Flatten(post_response.body.staffAvailabilityResponse)) :
            LET item == Flatten(post_response.body.staffAvailabilityResponse)[k]
            IN  ~Bookable(item) /\ LacksTimestamp(item) ) =>
        /\ parse_result = "ok"
        /\ pc # "crashed"

C18_Witness ==
    /\ CycleOver
    /\ LiveParse
    /\ Len(Flatten(post_response.body.staffAvailabilityResponse)) = 2
    /\ LET items == Flatten(post_response.body.staffAvailabilityResponse)
       IN  /\ ~Bookable(items[1]) /\ LacksTimestamp(items[1])
           /\ Bookable(items[2]) /\ ~LacksTimestamp(items[2])
    /\ parse_result = "ok"
    /\ notified

\* C19: a response whose staffAvailabilityResponse is an empty list ends
\* as one without the field does: validation fails, the cycle does not
\* end as a parse with no slots, and nothing is sent.
C19_EmptyStaffListFailsValidation ==
    ( /\ LiveParse
      /\ post_response.body.kind = "object"
      /\ post_response.body.hasStaff
      /\ post_response.body.staffAvailabilityResponse = <<>> ) =>
        /\ parse_result = "ValueError"
        /\ parse_result =
              parse_response([post_response.body EXCEPT !.hasStaff = FALSE], FALSE).exc
        /\ available_slots = <<>>
        /\ NoNotification
        /\ pc \in {"sleep", "get"}

C19_Witness ==
    /\ CycleOver
    /\ LiveParse
    /\ post_response.body.kind = "object"
    /\ post_response.body.hasStaff
    /\ post_response.body.staffAvailabilityResponse = <<>>
    /\ parse_result = "ValueError"
    /\ RECIPIENT_PHONE_NUMBERS # <<>>

====
